---- MODULE Spec2Model ----
(***************************************************************************)
(* Model of facebook_ads_scraper.py: the batch loop of main, the cursor    *)
(* pagination of get_ads_data_for_domain and the flattening normaliser     *)
(* process_ads_data.                                                       *)
(*                                                                         *)
(* Spec      : main's batch loop driving get_ads_data_for_domain against   *)
(*             a server that may answer anything.                          *)
(* SpecNorm  : process_ads_data run as an explicit call stack over         *)
(*             bounded nested inputs.                                      *)
(***************************************************************************)
EXTENDS Integers, Sequences, FiniteSets, TLC

VARIABLES
    scraping_mode,    \* main: 'Keywords' or 'Page IDs'
    i,                \* main: 1-based position in items_to_scrape
    pc,               \* control point of main / get_ads_data_for_domain
    params,           \* the dict built by get_params_config, mutated by the paginator
    forward_cursor,   \* local of get_ads_data_for_domain
    collation_token,  \* local of get_ads_data_for_domain
    results,          \* local accumulator of get_ads_data_for_domain
    response,         \* response.text of the last requests.post
    ads_data,         \* main's accumulator
    exc,              \* the exception that left main, "none" while there is none
    reqs,             \* history: query strings sent for the current item, in order
    pages,            \* history: response bodies received for the current item
    ends,             \* history: how each finished item's chain ended
    nstack,           \* process_ads_data: call stack, innermost frame last
    nret,             \* process_ads_data: value returned by the outermost call
    npc,              \* process_ads_data: "run", "done" or "raised"
    ninput,           \* process_ads_data: the argument of the outermost call
    ndepth            \* history: deepest call stack seen

bvars == <<scraping_mode, i, pc, params, forward_cursor, collation_token,
           results, response, ads_data, exc, reqs, pages, ends>>
nvars == <<nstack, nret, npc, ninput, ndepth>>
vars == <<bvars, nvars>>

----------------------------------------------------------------------------
(* Bounds *)

NItems == 2      \* items in the batch
MaxPages == 4    \* the server's result stream ends by this page
MaxNodes == 4    \* entries (records and groups, at any depth) in a normaliser input

----------------------------------------------------------------------------
(* Python values *)

None == "None"          \* Python's None / a JSON null / dict.get on a missing key
NoKey == "<no key>"     \* the key is not in the dict
Tokens == {"t1"}
ResultSizes == {0, 2}  \* how many records a page may carry
\* The opaque cursor the server issues on a page: one per position in the stream
Cursor(page) == "cursor" \o ToString(page)

Truthy(x) == x \notin {None, "", NoKey}

SeqSum(s, f(_)) ==
    LET RECURSIVE Go(_)
        Go(k) == IF k = 0 THEN <<>> ELSE Go(k - 1) \o f(s[k])
    IN Go(Len(s))

----------------------------------------------------------------------------
(* get_params_config *)

ValueError == [raised |-> "ValueError"]

\* Mutant: the dict is built for the first item only and reused afterwards
get_params_config_reused(config_type, page, query) ==
    IF i > 1 THEN params
    ELSE [q |-> query, view_all_page_id |-> page, search_type |-> config_type,
          forward_cursor |-> NoKey, collation_token |-> NoKey]

get_params_config(config_type, page, query) ==
    IF config_type = "keyword"
    THEN IF ~Truthy(query) THEN ValueError
         ELSE [q |-> query, view_all_page_id |-> NoKey,
               search_type |-> "keyword_exact_phrase",
               forward_cursor |-> NoKey, collation_token |-> NoKey]
    ELSE IF config_type = "page"
    THEN IF ~Truthy(page) THEN ValueError
         ELSE [q |-> NoKey, view_all_page_id |-> page,
               search_type |-> "page",
               forward_cursor |-> NoKey, collation_token |-> NoKey]
    ELSE ValueError

\* items_to_scrape: the stripped, non-empty pieces of the input text
items_to_scrape == [k \in 1..NItems |-> "item" \o ToString(k)]

----------------------------------------------------------------------------
(* The server's answers *)

Prefix == <<"f", "o", "r", " ", "(", ";", ";", ")", ";">>

JsonText(kind) ==
    CASE kind = "object" -> <<"{", "}">>
      [] kind = "array" -> <<"[", "]">>
      [] kind = "null" -> <<"n", "u", "l", "l">>
      [] kind = "false" -> <<"f", "a", "l", "s", "e">>
      [] OTHER -> <<"<", "!", ">">>

JsonKinds == {"object", "array", "null", "false", "garbage"}

\* The records a page carries are tagged with where the server put them.
Records(item, page, n) == [k \in 1..n |-> [item |-> item, page |-> page, k |-> k]]

\* A results value: a list, or None (key missing or JSON null)
NoResults == [isNone |-> TRUE, list |-> <<>>]
List(l) == [isNone |-> FALSE, list |-> l]

NoPayload == [kind |-> "absent", results |-> NoResults, forwardCursor |-> None,
              collationToken |-> None]

Payloads(item, page) ==
    {NoPayload, [NoPayload EXCEPT !.kind = "null"], [NoPayload EXCEPT !.kind = "array"]}
    \cup {[kind |-> "object", results |-> r, forwardCursor |-> fc, collationToken |-> ct] :
            r \in {NoResults} \cup {List(Records(item, page, n)) : n \in ResultSizes},
            fc \in {None, "", Cursor(page)},
            ct \in {None} \cup Tokens}

\* A body is its text (prefix and JSON skeleton) and, for an object, its payload.
Bodies(item, page) ==
    {[text |-> Prefix \o JsonText(k), payload |-> NoPayload] :
        k \in JsonKinds \ {"object"}}
    \cup {[text |-> Prefix \o JsonText("object"), payload |-> p] : p \in Payloads(item, page)}

NoBody == [text |-> <<>>, payload |-> NoPayload]

\* The stream is finite: the page numbered MaxPages carries no usable cursor.
ServerBodies(item, page) ==
    IF page < MaxPages THEN Bodies(item, page)
    ELSE {b \in Bodies(item, page) : ~Truthy(b.payload.forwardCursor)}

----------------------------------------------------------------------------
(* get_ads_data_for_domain *)

\* str.lstrip(chars): drops leading characters that are in the set chars
RECURSIVE lstrip(_, _)
lstrip(text, chars) ==
    IF text # <<>> /\ Head(text) \in chars THEN lstrip(Tail(text), chars) ELSE text

StripChars == {Prefix[k] : k \in 1..Len(Prefix)}

\* json.loads: the kind of value decoded, or "JSONDecodeError"
json_loads(text) ==
    IF \E k \in JsonKinds \ {"garbage"} : text = JsonText(k)
    THEN CHOOSE k \in JsonKinds \ {"garbage"} : text = JsonText(k)
    ELSE "JSONDecodeError"

Decode(body) == json_loads(lstrip(body.text, StripChars))

\* Mutant: a page without collationToken leaves the previous token in params
UpdateParams_stale_token(p, fc, ct) ==
    IF Truthy(fc)
    THEN [p EXCEPT !.forward_cursor = fc,
                   !.collation_token = IF Truthy(ct) THEN ct ELSE @]
    ELSE p

\* params.update(...) under `if forward_cursor:`
UpdateParams(p, fc, ct) ==
    IF Truthy(fc) THEN [p EXCEPT !.forward_cursor = fc, !.collation_token = ct] ELSE p

\* requests encodes params into the query string and leaves out None values
QueryString(p) ==
    [k \in DOMAIN p |-> IF p[k] = None THEN NoKey ELSE p[k]]

\* data_json.get('payload', {}).get('results') raises AttributeError when
\* data_json or the payload is not a dict
GetRaises(body) ==
    \/ Decode(body) # "object"
    \/ body.payload.kind \notin {"absent", "object"}

\* data_json.get('payload', {}).get('results')
GetResults(body) ==
    IF body.payload.kind = "absent" THEN NoResults ELSE body.payload.results

\* Mutant: only a missing list stops the loop, an empty one does not
ResultsTruthy_is_not_none(r) == ~r.isNone

ResultsTruthy(r) == ~r.isNone /\ r.list # <<>>

\* Mutant: the decode error is not caught
PageOutcome_uncaught(body) ==
    IF Decode(body) # "object" \/ GetRaises(body) THEN "AttributeError"
    ELSE IF ResultsTruthy(GetResults(body)) THEN "extend"
    ELSE "break"

\* The path lines 64-79 take on a page: "JSONDecodeError" (caught, break),
\* "AttributeError" (not caught), "break" (falsy results), "extend"
PageOutcome(body) ==
    IF Decode(body) = "JSONDecodeError" THEN "JSONDecodeError"
    ELSE IF GetRaises(body) THEN "AttributeError"
    ELSE IF ResultsTruthy(GetResults(body)) THEN "extend"
    ELSE "break"

\* Mutant: append instead of extend keeps one record of the page
extend_first_only(list, more) == Append(list, more[1])

\* results.extend(data_json['payload']['results'])
extend(list, more) == list \o more

\* ads_data.extend(<returned list>) in main
MainAccumulate(acc, returned) == acc \o returned

Raise(e) ==
    /\ pc' = "crashed"
    /\ exc' = e

\* main line 248-257: build the item's params and enter get_ads_data_for_domain
StartItem ==
    /\ pc = "main"
    /\ i <= Len(items_to_scrape)
    /\ LET item == items_to_scrape[i]
           p == get_params_config(
                    IF scraping_mode = "Keywords" THEN "keyword" ELSE "page",
                    IF scraping_mode = "Page IDs" THEN item ELSE None,
                    IF scraping_mode = "Keywords" THEN item ELSE None)
       IN IF p = ValueError
          THEN /\ Raise("ValueError")
               /\ UNCHANGED <<params, results, forward_cursor, collation_token, reqs, pages,
                              response>>
          ELSE /\ params' = p
               /\ results' = <<>>
               /\ forward_cursor' = ""
               /\ collation_token' = ""
               /\ reqs' = <<>>
               /\ pages' = <<>>
               /\ pc' = "loop"
               /\ exc' = exc
               /\ response' = NoBody
    /\ UNCHANGED <<scraping_mode, i, ads_data, ends, nvars>>

\* lines 55-60: top of the while loop, params.update and requests.post
SendRequest ==
    /\ pc = "loop"
    /\ params' = UpdateParams(params, forward_cursor, collation_token)
    /\ reqs' = Append(reqs, QueryString(params'))
    /\ \/ /\ Raise("RequestException")
          /\ UNCHANGED <<response, pages>>
       \/ /\ \E b \in ServerBodies(i, Len(reqs) + 1) :
                /\ response' = b
                /\ pages' = Append(pages, b)
          /\ pc' = "page"
          /\ exc' = exc
    /\ UNCHANGED <<scraping_mode, i, forward_cursor, collation_token, results,
                   ads_data, ends, nvars>>

\* lines 62-81: decode the page, accumulate, read the cursor
HandlePage ==
    /\ pc = "page"
    /\ LET o == PageOutcome(response) IN
       IF o = "AttributeError"
       THEN /\ Raise("AttributeError")
            /\ UNCHANGED <<results, forward_cursor, collation_token>>
       ELSE IF o \in {"JSONDecodeError", "break"}
       THEN /\ pc' = "return"
            /\ UNCHANGED <<results, forward_cursor, collation_token, exc>>
       ELSE /\ results' = extend(results, GetResults(response).list)
            /\ forward_cursor' = response.payload.forwardCursor
            /\ collation_token' = response.payload.collationToken
            /\ pc' = IF Truthy(forward_cursor') THEN "loop" ELSE "return"
            /\ exc' = exc
    /\ UNCHANGED <<scraping_mode, i, params, response, ads_data, reqs, pages, ends,
                   nvars>>

\* line 83 and main lines 257-258: return results (the call's locals are gone
\* with its frame), extend ads_data, next item
ReturnToMain ==
    /\ pc = "return"
    /\ ads_data' = MainAccumulate(ads_data, results)
    /\ i' = i + 1
    /\ pc' = "main"
    /\ results' = <<>>
    /\ forward_cursor' = ""
    /\ collation_token' = ""
    /\ response' = NoBody
    /\ reqs' = <<>>
    /\ pages' = <<>>
    /\ ends' = Append(ends, [how |-> PageOutcome(response),
                             cursor |-> params.forward_cursor,
                             returned |-> results])
    /\ UNCHANGED <<scraping_mode, params, exc, nvars>>

\* main line 260 on: the for loop is exhausted
FinishBatch ==
    /\ pc = "main"
    /\ i > Len(items_to_scrape)
    /\ pc' = "done"
    /\ UNCHANGED <<scraping_mode, i, params, forward_cursor, collation_token, results,
                   response, ads_data, exc, reqs, pages, ends, nvars>>

NoParams == [q |-> NoKey, view_all_page_id |-> NoKey, search_type |-> NoKey,
             forward_cursor |-> NoKey, collation_token |-> NoKey]

BatchInit ==
    /\ scraping_mode \in {"Keywords", "Page IDs"}
    /\ i = 1
    /\ pc = "main"
    /\ params = NoParams
    /\ forward_cursor = ""
    /\ collation_token = ""
    /\ results = <<>>
    /\ response = NoBody
    /\ ads_data = <<>>
    /\ exc = "none"
    /\ reqs = <<>>
    /\ pages = <<>>
    /\ ends = <<>>

NormIdle ==
    /\ nstack = <<>>
    /\ nret = <<>>
    /\ npc = "idle"
    /\ ninput = <<>>
    /\ ndepth = 0

Init == BatchInit /\ NormIdle

Next ==
    \/ StartItem
    \/ SendRequest
    \/ HandlePage
    \/ ReturnToMain
    \/ FinishBatch

Spec == Init /\ [][Next]_vars


----------------------------------------------------------------------------
(* process_ads_data: JSON values *)

\* A decoded JSON value is tagged with its Python type: "null", "str", "int",
\* "list" (v a sequence) or "dict" (v a function from keys to values).
Null == [t |-> "null"]
Str(x) == [t |-> "str", v |-> x]
Num(n) == [t |-> "int", v |-> n]
ListOf(l) == [t |-> "list", v |-> l]
Dict(d) == [t |-> "dict", v |-> d]
EmptyDict == [t |-> "dict", v |-> <<>>]

IsDict(x) == x.t = "dict"
IsList(x) == x.t = "list"

\* dict.get(key, default)
Get(d, key, default) == IF key \in DOMAIN d.v THEN d.v[key] ELSE default

\* bool(x)
PyTruthy(x) ==
    CASE x.t = "null" -> FALSE
      [] x.t = "str" -> x.v # ""
      [] x.t = "int" -> x.v # 0
      [] x.t = "list" -> Len(x.v) > 0
      [] x.t = "dict" -> DOMAIN x.v # {}
      [] OTHER -> TRUE

SecondsPerDay == 86400

\* pd.to_datetime(raw, unit='s', errors='coerce'): a timestamp, or NaT when
\* raw is not a number
to_datetime(raw) ==
    IF raw.t = "int" THEN [t |-> "Timestamp", days |-> raw.v \div SecondsPerDay]
    ELSE [t |-> "NaT"]

\* Timestamp.strftime('%Y-%m-%d') (NaT.strftime raises ValueError)
strftime(ts) == [t |-> "date", days |-> ts.days]

\* `<to_datetime>.strftime(...) if raw else None`
DateField(raw) == IF PyTruthy(raw) THEN strftime(to_datetime(raw)) ELSE Null
DateRaises(raw) == PyTruthy(raw) /\ to_datetime(raw).t = "NaT"

\* `x.get(k, [{}])[0].get(f, '') if x.get(k) else ''` of lines 116-117
FirstOf(d, key, field) ==
    IF PyTruthy(Get(d, key, Null)) THEN Get(Get(d, key, Null).v[1], field, Str("")) ELSE Str("")
FirstOfRaises(d, key) ==
    /\ PyTruthy(Get(d, key, Null))
    /\ \/ ~IsList(Get(d, key, Null))
       \/ ~IsDict(Get(d, key, Null).v[1])

\* lines 111-158 raise on this item
ExtractRaises(item) ==
    \/ ~IsDict(item)
    \/ LET snapshot == Get(item, "snapshot", EmptyDict) IN
       \/ ~IsDict(snapshot)
       \/ /\ "link_url" \in DOMAIN snapshot.v
          /\ \/ FirstOfRaises(snapshot, "images")
             \/ FirstOfRaises(snapshot, "videos")
             \/ ~IsDict(Get(snapshot, "body", EmptyDict))
             \/ ~IsDict(Get(Get(snapshot, "body", EmptyDict), "markup", EmptyDict))
       \/ /\ "link_url" \notin DOMAIN snapshot.v
          /\ LET cards == Get(snapshot, "cards", ListOf(<<EmptyDict>>)) IN
             /\ PyTruthy(cards)
             /\ \/ ~IsList(cards)
                \/ ~IsDict(cards.v[1])
       \/ DateRaises(Get(snapshot, "creation_time", Null))
       \/ DateRaises(Get(item, "endDate", Null))

\* lines 111-158: the canonical record of a single ad record
ExtractItem(item) ==
    LET snapshot == Get(item, "snapshot", EmptyDict)
        cards == Get(snapshot, "cards", ListOf(<<EmptyDict>>))
        flat == "link_url" \in DOMAIN snapshot.v
        card == IF PyTruthy(cards) THEN cards.v[1] ELSE EmptyDict
        src == IF flat THEN snapshot ELSE card
    IN [adid |-> Get(item, "adid", Str("")),
        pageid |-> Get(item, "pageID", Str("")),
        pagename |-> Get(item, "pageName", Str("")),
        link_url |-> Get(src, "link_url", Str("")),
        body |-> IF flat
                 THEN Get(Get(Get(snapshot, "body", EmptyDict), "markup", EmptyDict),
                          "__html", Str(""))
                 ELSE Get(card, "body", Str("")),
        cta_text |-> Get(src, "cta_text", Str("")),
        title |-> Get(src, "title", Str("")),
        original_image_url |->
            IF flat THEN FirstOf(snapshot, "images", "original_image_url")
            ELSE Get(card, "original_image_url", Str("")),
        original_video_url |->
            IF flat THEN FirstOf(snapshot, "videos", "video_hd_url")
            ELSE Get(card, "video_hd_url", Str("")),
        caption |-> Get(snapshot, "caption", Str("")),
        creation_time |-> DateField(Get(snapshot, "creation_time", Null)),
        end_date |-> DateField(Get(item, "endDate", Null)),
        collationCount |-> Get(item, "collationCount", Num(0)),
        display_format |-> Get(snapshot, "display_format", Str("")),
        link_description |-> Get(src, "link_description", Str(""))]

----------------------------------------------------------------------------
(* process_ads_data: inputs *)

\* The single ad records the inputs are built from; adid is the record's
\* position in the input (its path of list indices).
Shapes == {"flat", "carded", "bare", "flat_str_body", "bad_time"}

AdRecord(shape, path) ==
    CASE shape = "flat" ->
            Dict([adid |-> Str(path), pageID |-> Str("p1"), endDate |-> Num(3 * SecondsPerDay + 5),
                  collationCount |-> Num(2),
                  snapshot |-> Dict([link_url |-> Str("https://x.com/p?sqs=k1"),
                                     title |-> Str("T"),
                                     images |-> ListOf(<<Dict([original_image_url |-> Str("img")])>>),
                                     body |-> Dict([markup |-> Dict([__html |-> Str("hi")])]),
                                     creation_time |-> Num(SecondsPerDay + 7)])])
      [] shape = "carded" ->
            Dict([adid |-> Str(path),
                  snapshot |-> Dict([cards |-> ListOf(<<Dict([link_url |-> Str("https://y.com"),
                                                              body |-> Str("hi")])>>)])])
      [] shape = "bare" -> Dict([adid |-> Str(path)])
      [] shape = "flat_str_body" ->
            Dict([adid |-> Str(path),
                  snapshot |-> Dict([link_url |-> Str("https://x.com"), body |-> Str("hi")])])
      [] OTHER ->
            Dict([adid |-> Str(path),
                  snapshot |-> Dict([link_url |-> Str("https://x.com"),
                                     creation_time |-> Str("soon")])])

\* Nested inputs by size: a forest of n entries, a group counting as one entry
\* plus its elements.
RECURSIVE Forests(_), Trees(_)
Forests(n) ==
    IF n = 0 THEN {<<>>}
    ELSE UNION {{<<tr>> \o f : tr \in Trees(k), f \in Forests(n - k)} : k \in 1..n}
Trees(k) ==
    (IF k = 1 THEN {[t |-> "leaf", shape |-> sh] : sh \in Shapes} ELSE {})
    \cup {[t |-> "group", v |-> f] : f \in Forests(k - 1)}

RECURSIVE Concrete(_, _)
Concrete(tr, path) ==
    IF tr.t = "leaf" THEN AdRecord(tr.shape, path)
    ELSE ListOf([k \in 1..Len(tr.v) |-> Concrete(tr.v[k], path \o <<k>>)])

RawInputs ==
    {[k \in 1..Len(f) |-> Concrete(f[k], <<k>>)] :
        f \in UNION {Forests(n) : n \in 0..MaxNodes}}

----------------------------------------------------------------------------
(* process_ads_data: the recursion as a call stack *)

\* A call's frame: its argument, the position of the for loop (line 105), the
\* number of sub_items of the current group already flattened (line 107) and
\* its extracted_data.
Frame(arg) == [ads_data |-> arg, idx |-> 1, sub |-> 0, extracted |-> <<>>]

Top == nstack[Len(nstack)]
SetTop(f) == [nstack EXCEPT ![Len(nstack)] = f]
Current == Top.ads_data[Top.idx]

\* Mutant: the flattened records are put in front of extracted_data
flatten_extend_in_front(extracted, flattened) == flattened \o extracted

\* Mutant: the flattened records are added twice
flatten_extend_twice(extracted, flattened) == extracted \o flattened \o flattened

\* extracted_data.extend(process_ads_data([sub_item])), line 108
flatten_extend(extracted, flattened) == extracted \o flattened

Max(a, b) == IF a >= b THEN a ELSE b

\* lines 111-158: a single ad record is converted and appended, or raises
NormExtract ==
    /\ npc = "run"
    /\ Top.idx <= Len(Top.ads_data)
    /\ ~IsList(Current)
    /\ IF ExtractRaises(Current)
       THEN /\ npc' = "raised"
            /\ nstack' = <<>>
       ELSE /\ npc' = npc
            /\ nstack' = SetTop([Top EXCEPT !.extracted = Append(@, ExtractItem(Current)),
                                            !.idx = @ + 1])
    /\ UNCHANGED <<nret, ninput, ndepth, bvars>>

\* lines 106-108: the next sub_item of a group is handed to a recursive call
NormRecurse ==
    /\ npc = "run"
    /\ Top.idx <= Len(Top.ads_data)
    /\ IsList(Current)
    /\ Top.sub < Len(Current.v)
    /\ nstack' = Append(nstack, Frame(<<Current.v[Top.sub + 1]>>))
    /\ ndepth' = Max(ndepth, Len(nstack'))
    /\ UNCHANGED <<nret, npc, ninput, bvars>>

\* line 109: the group is exhausted, continue with the next item
NormContinue ==
    /\ npc = "run"
    /\ Top.idx <= Len(Top.ads_data)
    /\ IsList(Current)
    /\ Top.sub = Len(Current.v)
    /\ nstack' = SetTop([Top EXCEPT !.idx = @ + 1, !.sub = 0])
    /\ UNCHANGED <<nret, npc, ninput, ndepth, bvars>>

\* line 160: return extracted_data, to the caller's extend or to main
NormReturn ==
    /\ npc = "run"
    /\ Top.idx > Len(Top.ads_data)
    /\ IF Len(nstack) = 1
       THEN /\ nret' = Top.extracted
            /\ npc' = "done"
            /\ nstack' = <<>>
       ELSE LET caller == nstack[Len(nstack) - 1] IN
            /\ nstack' = [SubSeq(nstack, 1, Len(nstack) - 1) EXCEPT
                             ![Len(nstack) - 1] =
                                 [caller EXCEPT
                                     !.extracted = flatten_extend(@, Top.extracted),
                                     !.sub = @ + 1]]
            /\ UNCHANGED <<nret, npc>>
    /\ UNCHANGED <<ninput, ndepth, bvars>>

NormInit ==
    /\ BatchInit
    /\ scraping_mode = "Keywords"
    /\ ninput \in RawInputs
    /\ nstack = <<Frame(ninput)>>
    /\ nret = <<>>
    /\ npc = "run"
    /\ ndepth = 1

NormNext ==
    \/ NormExtract
    \/ NormRecurse
    \/ NormContinue
    \/ NormReturn

SpecNorm == NormInit /\ [][NormNext]_vars

----------------------------------------------------------------------------
(* Vocabulary of the pagination claims, over the histories reqs and pages *)

DecodeFails(b) == Decode(b) = "JSONDecodeError"
PageRecords(b) == b.payload.results.list
ResultsEmptyOrAbsent(b) == PageRecords(b) = <<>>

\* Page n has been looked at by lines 64-79
Handled(n) == n < Len(pages) \/ (n = Len(pages) /\ pc # "page")
\* The loop went, or is going, round again after page n
Continued(n) == n < Len(reqs) \/ (n = Len(pages) /\ pc = "loop")

RecordsUpTo(n) == SeqSum(SubSeq(pages, 1, n), PageRecords)

LastNonEmpty ==
    LET S == {n \in 1..Len(pages) : PageRecords(pages[n]) # <<>>}
    IN IF S = {} THEN 0 ELSE CHOOSE n \in S : \A m \in S : m <= n

Returned(e) == e.returned

\* What a request carries for a value the page gave
Carried(v) == IF v = None THEN NoKey ELSE v

\* C1: the first request of a chain carries neither forward_cursor nor
\* collation_token, and every later request carries exactly the forwardCursor
\* and collationToken of the page received just before it.
C1_CursorThreading ==
    \A n \in 1..Len(reqs) :
        IF n = 1
        THEN reqs[n].forward_cursor = NoKey /\ reqs[n].collation_token = NoKey
        ELSE /\ reqs[n].forward_cursor = Carried(pages[n - 1].payload.forwardCursor)
             /\ reqs[n].collation_token = Carried(pages[n - 1].payload.collationToken)

\* A third request was sent after a page that gave a token and then a page that
\* gave none.
C1_Witness ==
    /\ Len(reqs) >= 3
    /\ pages[1].payload.collationToken \in Tokens
    /\ pages[2].payload.collationToken = None
    /\ reqs[3].forward_cursor = Cursor(2)

\* C2 as written: after a page the loop stops if and only if the page's result
\* list is empty or absent, the payload has no forwardCursor, or decoding failed.
C2_StopsOnlyWhenCursorAbsent ==
    \A n \in 1..Len(pages) :
        Handled(n) =>
            (~Continued(n) <=> \/ DecodeFails(pages[n])
                               \/ ResultsEmptyOrAbsent(pages[n])
                               \/ pages[n].payload.forwardCursor = None)

\* C2 amended: after a page the loop stops if and only if decoding failed, the
\* page's result list is empty or absent, or its forwardCursor is absent, null
\* or the empty string; after every other page another request is issued.
C2_StopsIffNoUsableCursor ==
    \A n \in 1..Len(pages) :
        Handled(n) =>
            (~Continued(n) <=> \/ DecodeFails(pages[n])
                               \/ ResultsEmptyOrAbsent(pages[n])
                               \/ pages[n].payload.forwardCursor \in {None, ""})

\* The chain went on after a first page and stopped on a second page that has
\* records and an empty-string forwardCursor.
C2_Witness ==
    /\ pc = "return"
    /\ Len(pages) = 2
    /\ Len(reqs) = 2
    /\ PageRecords(pages[2]) # <<>>
    /\ pages[2].payload.forwardCursor = ""

\* C3 as written: get_ads_data_for_domain never lets an exception out, whatever
\* the server does.
C3_NeverRaises ==
    ~(pc = "crashed" /\ exc \in {"RequestException", "AttributeError"})

\* C4: a page that fails decoding ends the item's chain with no further
\* request and no record of that page, the call returns the records of the
\* earlier pages, and main goes on: every item before the current one has
\* returned and ads_data holds what they returned.
C4_DecodeFailureTruncates ==
    /\ (/\ pages # <<>>
        /\ Handled(Len(pages))
        /\ Len(reqs) = Len(pages)
        /\ DecodeFails(pages[Len(pages)]))
       => /\ pc = "return"
          /\ results = RecordsUpTo(Len(pages) - 1)
    /\ (pc # "crashed" /\ \E k \in 1..Len(ends) : ends[k].how = "JSONDecodeError")
       => /\ Len(ends) = i - 1
          /\ ads_data = SeqSum(ends, Returned)

\* The first item lost its third page to a decode failure and kept two pages of
\* records; the second item then ran its chain to its natural end.
C4_Witness ==
    /\ pc = "done"
    /\ ends[1].how = "JSONDecodeError"
    /\ Len(ends[1].returned) = 4
    /\ ends[2].how = "extend"
    /\ Len(ads_data) = 6

\* C5 as written: whatever fails in one item, main still processes every item
\* of the batch.
C5_BatchProcessesEveryItem ==
    pc \in {"done", "crashed"} => i > Len(items_to_scrape)

\* C6: what get_ads_data_for_domain returns is the concatenation, in request
\* order, of the result lists of the pages received, up to the last page that
\* has records; a page whose payload has an empty or no result list ends the
\* chain by a return, not by an error.
C6_ReturnsConcatenation ==
    /\ pc = "return" => results = RecordsUpTo(LastNonEmpty)
    /\ (/\ pages # <<>>
        /\ Handled(Len(pages))
        /\ Decode(pages[Len(pages)]) = "object"
        /\ pages[Len(pages)].payload.kind \in {"absent", "object"}
        /\ PageRecords(pages[Len(pages)]) = <<>>)
       => pc = "return"

\* Three pages with records, then an empty page that ends the chain.
C6_Witness ==
    /\ pc = "return"
    /\ Len(pages) = 4
    /\ LastNonEmpty = 3
    /\ Len(results) = 6

\* C10: the first request of every item carries the item's own query and no
\* cursor fields, and ads_data changes only when a paginator call returns, by
\* having that call's records appended.
C10_NoStateAcrossItems ==
    /\ [](reqs # <<>> =>
            /\ reqs[1].forward_cursor = NoKey
            /\ reqs[1].collation_token = NoKey
            /\ items_to_scrape[i] \in {reqs[1].q, reqs[1].view_all_page_id})
    /\ [][ads_data' # ads_data =>
            pc = "return" /\ ads_data' = ads_data \o results]_vars

\* The second item's first request has been sent after the first item's params
\* ended up holding a cursor.
C10_Witness ==
    /\ i = 2
    /\ Len(reqs) = 1
    /\ ends[1].cursor = Cursor(2)
    /\ ads_data # <<>>

----------------------------------------------------------------------------
(* Vocabulary of the normaliser claims, over the input's positions *)

RECURSIVE EntryLeafPaths(_, _)
\* The positions of the single ad records reachable in an entry
EntryLeafPaths(e, path) ==
    IF IsList(e)
    THEN UNION {EntryLeafPaths(e.v[k], path \o <<k>>) : k \in 1..Len(e.v)}
    ELSE {path}

InputLeafPaths == UNION {EntryLeafPaths(ninput[k], <<k>>) : k \in 1..Len(ninput)}

RECURSIVE EntryGroups(_, _)
\* The grouped entries of an entry, itself included, each with its position
EntryGroups(e, path) ==
    IF IsList(e)
    THEN {[path |-> path, group |-> e]}
         \cup UNION {EntryGroups(e.v[k], path \o <<k>>) : k \in 1..Len(e.v)}
    ELSE {}

InputGroups == UNION {EntryGroups(ninput[k], <<k>>) : k \in 1..Len(ninput)}

RECURSIVE EntryNesting(_)
\* How many lists deep an entry goes
EntryNesting(e) ==
    IF ~IsList(e) THEN 0
    ELSE LET S == {EntryNesting(e.v[k]) : k \in 1..Len(e.v)}
         IN 1 + (IF S = {} THEN 0 ELSE CHOOSE m \in S : \A x \in S : x <= m)

InputNesting ==
    LET S == {EntryNesting(ninput[k]) : k \in 1..Len(ninput)}
    IN IF S = {} THEN 0 ELSE CHOOSE m \in S : \A x \in S : x <= m

IsPrefix(p, q) == Len(p) <= Len(q) /\ SubSeq(q, 1, Len(p)) = p

\* Depth-first, left-to-right order of positions
Before(p, q) ==
    \E k \in 1..Len(p) :
        /\ k <= Len(q)
        /\ SubSeq(p, 1, k - 1) = SubSeq(q, 1, k - 1)
        /\ p[k] < q[k]

\* The input position of the k-th output record
OutPath(k) == nret[k].adid.v

\* The output records that come from the group at position p
FromGroup(p) == {k \in 1..Len(nret) : IsPrefix(p, OutPath(k))}

\* C7 as written: process_ads_data has no failure path, whatever the shape of
\* a record's snapshot, body, images, cards or dates.
C7_NeverRaises == npc # "raised"

\* C8: the output holds one record per single ad record reachable in the
\* input, in depth-first left-to-right order of their input positions.
C8_DepthFirstOrder ==
    npc = "done" =>
        /\ Len(nret) = Cardinality(InputLeafPaths)
        /\ {OutPath(k) : k \in 1..Len(nret)} = InputLeafPaths
        /\ \A j, k \in 1..Len(nret) : j < k => Before(OutPath(j), OutPath(k))

\* A group of two records followed by a top-level record has been flattened.
C8_Witness ==
    /\ npc = "done"
    /\ Len(ninput) = 2
    /\ IsList(ninput[1])
    /\ Len(ninput[1].v) = 2
    /\ ~IsList(ninput[2])
    /\ Len(nret) = 3

\* C9 as written: flattening a grouped entry yields exactly len(group) records.
C9_GroupYieldsItsLength ==
    npc = "done" =>
        \A g \in InputGroups : Cardinality(FromGroup(g.path)) = Len(g.group.v)

\* C9 amended: when process_ads_data returns, each grouped entry has yielded
\* one record per single ad record reachable in it, which is len(group) when
\* every element of the group is a single record; and the call stack is never
\* deeper than the outermost call plus the nesting depth of the input.
C9_GroupYieldsItsRecords ==
    /\ ndepth <= 1 + InputNesting
    /\ Len(nstack) <= ndepth
    /\ npc = "done" =>
        \A g \in InputGroups :
            /\ Cardinality(FromGroup(g.path)) = Cardinality(EntryLeafPaths(g.group, g.path))
            /\ (\A k \in 1..Len(g.group.v) : ~IsList(g.group.v[k]))
                   => Cardinality(FromGroup(g.path)) = Len(g.group.v)

\* A group nested in a group has been flattened, two calls deep.
C9_Witness ==
    /\ npc = "done"
    /\ ndepth = 3
    /\ \E g \in InputGroups :
          /\ Len(g.path) = 1
          /\ Len(g.group.v) = 1
          /\ Cardinality(FromGroup(g.path)) = 2

====
